---- MODULE Spec2Model ----
(***************************************************************************)
(* Model of the UMA resource middleware (src/resource_middleware.go) and   *)
(* of the provider's resource registration (src/pkg/rp/keycloak.go).       *)
(*                                                                         *)
(* Every inbound request is served by its own goroutine (net/http).  The   *)
(* handler, getProvider and RegisterResource take no lock, so the model    *)
(* cuts them into steps at every access to shared memory (m.providers,     *)
(* p.registeredResources, p.UMADiscovery) and at every outbound call.      *)
(* A panic in a handler is recovered by net/http: it ends that request     *)
(* only.  An unsynchronised concurrent access to a Go map may be detected  *)
(* by the runtime, which then ends the whole process.                      *)
(***************************************************************************)
EXTENDS Naturals, FiniteSets, Sequences

\* Number of requests the server receives in one run.
MaxReq == 2

Reqs == 1..MaxReq

\* Issuers a ProviderInfoGetter can answer with.
Issuers == {"issA", "issB"}

\* ProviderType values: Keycloak is the only supported one.
Keycloak == "keycloak"
ProviderTypes == {Keycloak, "other"}

\* Resource names the matcher can produce.
Names == {"n1", "n2"}

\* IDs an authorization server can answer a registration with.
IDs == {"id1", "id2"}

\* The empty string: Resource.ID before registration, ResourceStore.Get miss.
NoID == ""

\* match returned a nil resource.
NoRes == [Name |-> "", ID |-> NoID]

\* A nil Provider / an absent key of m.providers.
NoProvider == 0

\* An absent key of registeredResources.
NoEntry == "absent"

\* A provider instance is named after the request that constructed it
\* (a request constructs at most one).
Insts == Reqs

VARIABLES
    crashed,              \* the Go runtime ended the process (fatal error)
    resourceStore,        \* ResourceStore: Name -> ID or ""
    providers,            \* m.providers: issuer -> Provider
    pIssuer,              \* baseProvider.Issuer of each instance ("" = not constructed)
    pstate,               \* state of each instance's UMADiscovery
    registeredResources,  \* baseProvider.registeredResources of each instance
    discoverCalls,        \* DiscoverUMA calls made, per issuer
    regCalls,             \* registration POSTs issued, per instance and Name
    regReplies,           \* IDs the server answered those POSTs with
    pc,                   \* position of each request's handler
    pinfo,                \* local pinfo of getProvider
    resource,             \* local resource of the handler
    p,                    \* local p of the handler / Provider in the request context
    op,                   \* the protocol operation a downstream handler is calling
    wire,                 \* the HTTP requests that operation has sent
    reply,                \* what came back for the request sent
    result                \* what the operation returned

shared == <<crashed, resourceStore, providers, pIssuer, pstate, registeredResources,
            discoverCalls, regCalls, regReplies>>
handlerVars == <<crashed, resourceStore, providers, pIssuer, pstate,
                 registeredResources, discoverCalls, regCalls, regReplies,
                 pc, pinfo, resource, p>>
callVars == <<op, wire, reply, result>>
vars == <<handlerVars, callVars>>

\* The Resource Store at process start: n1 was registered by an earlier run of
\* the server, n2 never was.
StoredIDs == [n \in Names |-> IF n = "n1" THEN "id1" ELSE NoID]

NoInfo == [Issuer |-> "", Type |-> ""]

\* No protocol operation is being called.
NoOp == [name |-> "none", phase |-> "none"]
NoReply == [kind |-> "none"]
NoResult == [val |-> "", err |-> FALSE, returned |-> FALSE]

Init ==
    /\ crashed = FALSE
    /\ resourceStore = StoredIDs
    /\ providers = [i \in Issuers |-> NoProvider]
    /\ pIssuer = [i \in Insts |-> ""]
    /\ pstate = [i \in Insts |-> "None"]
    /\ registeredResources = [i \in Insts |-> [n \in Names |-> NoEntry]]
    /\ discoverCalls = [i \in Issuers |-> 0]
    /\ regCalls = [i \in Insts |-> [n \in Names |-> 0]]
    /\ regReplies = [i \in Insts |-> [n \in Names |-> {}]]
    /\ pc = [r \in Reqs |-> "idle"]
    /\ pinfo = [r \in Reqs |-> NoInfo]
    /\ resource = [r \in Reqs |-> NoRes]
    /\ p = [r \in Reqs |-> NoProvider]
    /\ op = NoOp
    /\ wire = <<>>
    /\ reply = NoReply
    /\ result = NoResult

\* A request is being handled.
InFlight(r) == pc[r] \notin {"idle", "served", "panicked"}

\* The goroutines are interchangeable: requests arrive in the order of their names.
Arrived(r) == IF r = 1 THEN TRUE ELSE pc[r - 1] # "idle"

(***************************************************************************)
(* The handler: r, resource = m.rm.match(r); if resource != nil {...}      *)
(***************************************************************************)

\* What m.rm.match can return: nil, or a resource of a declared template whose
\* ID the Resource Store pre-fills.
MatchResults == {NoRes} \cup {[Name |-> n, ID |-> resourceStore[n]] : n \in Names}

\* Variant of AfterMatch: the nil check on the resource is missing.
AfterMatchNoNilCheck(res) == "getProvider"

\* if resource != nil { getProvider; RegisterResource }; next.ServeHTTP
AfterMatch(res) == IF res # NoRes THEN "getProvider" ELSE "next"

Match(r) ==
    /\ ~crashed
    /\ pc[r] = "idle"
    /\ Arrived(r)
    /\ \E res \in MatchResults :
          /\ resource' = [resource EXCEPT ![r] = res]
          /\ pc' = [pc EXCEPT ![r] = AfterMatch(res)]
    /\ UNCHANGED callVars
    /\ UNCHANGED <<shared, pinfo, p>>

(***************************************************************************)
(* getProvider                                                             *)
(***************************************************************************)

\* if v, ok := m.providers[pinfo.Issuer]; ok
Cached(issuer) == providers[issuer] # NoProvider

\* Variant of LookupHit: the cache is not keyed by the issuer, any cached
\* provider answers the lookup.
LookupHitAnyIssuer(r) ==
    /\ ~crashed
    /\ pc[r] = "getProvider"
    /\ \E info \in [Issuer : Issuers, Type : ProviderTypes], other \in Issuers :
          /\ Cached(other)
          /\ pinfo' = [pinfo EXCEPT ![r] = info]
          /\ p' = [p EXCEPT ![r] = providers[other]]
    /\ pc' = [pc EXCEPT ![r] = "register"]
    /\ UNCHANGED callVars
    /\ UNCHANGED <<shared, resource>>

\* pinfo := m.getProviderInfo(r); cache hit: return setProvider(r, v), v
LookupHit(r) ==
    /\ ~crashed
    /\ pc[r] = "getProvider"
    /\ \E info \in [Issuer : Issuers, Type : ProviderTypes] :
          /\ Cached(info.Issuer)
          /\ pinfo' = [pinfo EXCEPT ![r] = info]
          /\ p' = [p EXCEPT ![r] = providers[info.Issuer]]
    /\ pc' = [pc EXCEPT ![r] = "register"]
    /\ UNCHANGED callVars
    /\ UNCHANGED <<shared, resource>>

\* cache miss, case Keycloak: p = &keycloakProvider{newBaseProvider(...)}
Construct(r) ==
    /\ ~crashed
    /\ pc[r] = "getProvider"
    /\ \E info \in [Issuer : Issuers, Type : ProviderTypes] :
          /\ ~Cached(info.Issuer)
          /\ info.Type = Keycloak
          /\ pinfo' = [pinfo EXCEPT ![r] = info]
          /\ pIssuer' = [pIssuer EXCEPT ![r] = info.Issuer]
    /\ pstate' = [pstate EXCEPT ![r] = "Uninitialized"]
    /\ pc' = [pc EXCEPT ![r] = "insert"]
    /\ UNCHANGED callVars
    /\ UNCHANGED <<crashed, resourceStore, providers, registeredResources,
                   discoverCalls, regCalls, regReplies, resource, p>>

\* Variant of Unsupported: the switch has no default case, a provider is
\* constructed whatever the type.
UnsupportedConstructs(r) ==
    /\ ~crashed
    /\ pc[r] = "getProvider"
    /\ \E info \in [Issuer : Issuers, Type : ProviderTypes] :
          /\ ~Cached(info.Issuer)
          /\ info.Type # Keycloak
          /\ pinfo' = [pinfo EXCEPT ![r] = info]
          /\ pIssuer' = [pIssuer EXCEPT ![r] = info.Issuer]
    /\ pstate' = [pstate EXCEPT ![r] = "Uninitialized"]
    /\ pc' = [pc EXCEPT ![r] = "insert"]
    /\ UNCHANGED callVars
    /\ UNCHANGED <<crashed, resourceStore, providers, registeredResources,
                   discoverCalls, regCalls, regReplies, resource, p>>

\* cache miss, default: panic(fmt.Errorf("unsupported provider type %q", ...))
Unsupported(r) ==
    /\ ~crashed
    /\ pc[r] = "getProvider"
    /\ \E info \in [Issuer : Issuers, Type : ProviderTypes] :
          /\ ~Cached(info.Issuer)
          /\ info.Type # Keycloak
          /\ pinfo' = [pinfo EXCEPT ![r] = info]
    /\ pc' = [pc EXCEPT ![r] = "panicked"]
    /\ UNCHANGED callVars
    /\ UNCHANGED <<shared, resource, p>>

\* m.providers[pinfo.Issuer] = p
Insert(r) ==
    /\ ~crashed
    /\ pc[r] = "insert"
    /\ providers' = [providers EXCEPT ![pinfo[r].Issuer] = r]
    /\ pc' = [pc EXCEPT ![r] = "discover"]
    /\ UNCHANGED callVars
    /\ UNCHANGED <<crashed, resourceStore, pIssuer, pstate, registeredResources,
                   discoverCalls, regCalls, regReplies, pinfo, resource, p>>

\* p.DiscoverUMA() is called: the discovery request goes out
DiscoverCall(r) ==
    /\ ~crashed
    /\ pc[r] = "discover"
    /\ pstate' = [pstate EXCEPT ![r] = "Discovering"]
    /\ discoverCalls' = [discoverCalls EXCEPT ![pinfo[r].Issuer] = @ + 1]
    /\ pc' = [pc EXCEPT ![r] = "discovering"]
    /\ UNCHANGED callVars
    /\ UNCHANGED <<crashed, resourceStore, providers, pIssuer, registeredResources,
                   regCalls, regReplies, pinfo, resource, p>>

\* DiscoverUMA returned nil: return setProvider(r, p), p
DiscoverOK(r) ==
    /\ ~crashed
    /\ pc[r] = "discovering"
    /\ pstate' = [pstate EXCEPT ![r] = "Ready"]
    /\ p' = [p EXCEPT ![r] = r]
    /\ pc' = [pc EXCEPT ![r] = "register"]
    /\ UNCHANGED callVars
    /\ UNCHANGED <<crashed, resourceStore, providers, pIssuer, registeredResources,
                   discoverCalls, regCalls, regReplies, pinfo, resource>>

\* if err := p.DiscoverUMA(); err != nil { panic(err) }
DiscoverFail(r) ==
    /\ ~crashed
    /\ pc[r] = "discovering"
    /\ pstate' = [pstate EXCEPT ![r] = "Failed"]
    /\ pc' = [pc EXCEPT ![r] = "panicked"]
    /\ UNCHANGED callVars
    /\ UNCHANGED <<crashed, resourceStore, providers, pIssuer, registeredResources,
                   discoverCalls, regCalls, regReplies, pinfo, resource, p>>

(***************************************************************************)
(* RegisterResource                                                        *)
(***************************************************************************)

\* Variant of Registered: the idempotency cache is never consulted.
RegisteredNever(i, n) == FALSE

\* if s, ok := p.registeredResources[resource.Name]; ok
Registered(i, n) == registeredResources[i][n] # NoEntry

\* Whether a POST to p.UMADiscovery.ResourceRegistrationEndpoint can leave the
\* process.  The endpoint is "" until DiscoverUMA has filled it in, and the
\* client refuses a request without a scheme; while DiscoverUMA is writing
\* UMADiscovery the unsynchronised read sees either.
EndpointUsable(i) ==
    CASE pstate[i] = "Ready" -> {TRUE}
      [] pstate[i] = "Discovering" -> {TRUE, FALSE}
      [] OTHER -> {FALSE}

\* registerResource finds the Name: return s, nil; resource.ID = rid
RegisterHit(r) ==
    /\ ~crashed
    /\ pc[r] = "register"
    /\ Registered(p[r], resource[r].Name)
    /\ resource' = [resource EXCEPT ![r].ID = registeredResources[p[r]][resource[r].Name]]
    /\ pc' = [pc EXCEPT ![r] = "next"]
    /\ UNCHANGED callVars
    /\ UNCHANGED <<shared, pinfo, p>>

\* registerResource misses and calls register(): the POST goes out
RegisterCall(r) ==
    /\ ~crashed
    /\ pc[r] = "register"
    /\ ~Registered(p[r], resource[r].Name)
    /\ TRUE \in EndpointUsable(p[r])
    /\ regCalls' = [regCalls EXCEPT ![p[r]][resource[r].Name] = @ + 1]
    /\ pc' = [pc EXCEPT ![r] = "registering"]
    /\ UNCHANGED callVars
    /\ UNCHANGED <<crashed, resourceStore, providers, pIssuer, pstate,
                   registeredResources, discoverCalls, regReplies, pinfo, resource, p>>

\* registerResource misses and register() fails before anything is sent;
\* the handler panics with the error
RegisterNoEndpoint(r) ==
    /\ ~crashed
    /\ pc[r] = "register"
    /\ ~Registered(p[r], resource[r].Name)
    /\ FALSE \in EndpointUsable(p[r])
    /\ pc' = [pc EXCEPT ![r] = "panicked"]
    /\ UNCHANGED callVars
    /\ UNCHANGED <<shared, pinfo, resource, p>>

\* 2XX with {"_id": id}: p.registeredResources[resource.Name] = resourceID;
\* resource.ID = rid; return nil
RegisterOK(r) ==
    /\ ~crashed
    /\ pc[r] = "registering"
    /\ \E id \in IDs :
          /\ regReplies' = [regReplies EXCEPT ![p[r]][resource[r].Name] = @ \cup {id}]
          /\ registeredResources' =
                [registeredResources EXCEPT ![p[r]][resource[r].Name] = id]
          /\ resource' = [resource EXCEPT ![r].ID = id]
    /\ pc' = [pc EXCEPT ![r] = "next"]
    /\ UNCHANGED callVars
    /\ UNCHANGED <<crashed, resourceStore, providers, pIssuer, pstate,
                   discoverCalls, regCalls, pinfo, p>>

\* What makes register() return an error once the POST is out.
RegisterFailures == {"transport error", "non-2XX status", "undecodable body"}

\* Variant of RegisterFail: the handler drops the error of RegisterResource and
\* goes on to next.ServeHTTP.
RegisterFailIgnored(r) ==
    /\ ~crashed
    /\ pc[r] = "registering"
    /\ pc' = [pc EXCEPT ![r] = "next"]
    /\ UNCHANGED callVars
    /\ UNCHANGED <<shared, pinfo, resource, p>>

\* Variant of RegisterFail: the failure is remembered, an empty ID is cached for
\* the Name.
RegisterFailRemembered(r) ==
    /\ ~crashed
    /\ pc[r] = "registering"
    /\ registeredResources' = [registeredResources EXCEPT ![p[r]][resource[r].Name] = NoID]
    /\ pc' = [pc EXCEPT ![r] = "panicked"]
    /\ UNCHANGED callVars
    /\ UNCHANGED <<crashed, resourceStore, providers, pIssuer, pstate,
                   discoverCalls, regCalls, regReplies, pinfo, resource, p>>

\* register() returns an error: return "", err; the handler panics with it
RegisterFail(r) ==
    /\ ~crashed
    /\ pc[r] = "registering"
    /\ \E e \in RegisterFailures : pc' = [pc EXCEPT ![r] = "panicked"]
    /\ UNCHANGED callVars
    /\ UNCHANGED <<shared, pinfo, resource, p>>

\* next.ServeHTTP(w, r)
ServeHTTP(r) ==
    /\ ~crashed
    /\ pc[r] = "next"
    /\ pc' = [pc EXCEPT ![r] = "served"]
    /\ UNCHANGED callVars
    /\ UNCHANGED <<shared, pinfo, resource, p>>

(***************************************************************************)
(* Unsynchronised map access                                               *)
(***************************************************************************)

\* Two goroutines are at m.providers, one of them writing.
RaceOnProviders ==
    \E r1, r2 \in Reqs :
        r1 # r2 /\ pc[r1] = "insert" /\ pc[r2] \in {"insert", "getProvider"}

\* Two goroutines are at the same provider's registeredResources, one of them
\* about to write.
RaceOnRegistered ==
    \E r1, r2 \in Reqs :
        /\ r1 # r2
        /\ pc[r1] = "registering"
        /\ pc[r2] \in {"registering", "register"}
        /\ p[r1] = p[r2]

\* The runtime detects the concurrent map access: "fatal error: concurrent map
\* writes" / "concurrent map read and map write".  No handler runs any further.
FatalError ==
    /\ ~crashed
    /\ RaceOnProviders \/ RaceOnRegistered
    /\ crashed' = TRUE
    /\ UNCHANGED callVars
    /\ UNCHANGED <<resourceStore, providers, pIssuer, pstate, registeredResources,
                   discoverCalls, regCalls, regReplies, pc, pinfo, resource, p>>

\* One step of the handler of request r.
Step(r) ==
    \/ Match(r)
    \/ LookupHit(r)
    \/ Construct(r)
    \/ Unsupported(r)
    \/ Insert(r)
    \/ DiscoverCall(r)
    \/ DiscoverOK(r)
    \/ DiscoverFail(r)
    \/ RegisterHit(r)
    \/ RegisterCall(r)
    \/ RegisterNoEndpoint(r)
    \/ RegisterOK(r)
    \/ RegisterFail(r)
    \/ ServeHTTP(r)

Next == (\E r \in Reqs : Step(r)) \/ FatalError

\* Requests are served concurrently, one goroutine each.
Spec == Init /\ [][Next]_vars

\* No other request is being handled.
Alone(r) == \A q \in Reqs \ {r} : ~InFlight(q)

SeqNext == \E r \in Reqs : Alone(r) /\ Step(r)

\* Requests are served one after the other: each handler returns before the
\* next one starts.
SeqSpec == Init /\ [][SeqNext]_vars

(***************************************************************************)
(* Protocol operations a downstream handler calls: RequestPermissionTicket *)
(* on the bound Provider, RequestRPT on a KeycloakClient.                  *)
(***************************************************************************)

\* Most scopes a caller passes to RequestPermissionTicket.
MaxScopes == 2

Scopes == {"read", "write"}
ScopeLists == UNION {[1..n -> Scopes] : n \in 0..MaxScopes}

\* p.UMADiscovery.PermissionEndpoint and kc.oidc.Endpoint().TokenURL
PermissionEndpoint == "permission_endpoint"
TokenURL == "token_endpoint"

UMATicketGrant == "urn:ietf:params:oauth:grant-type:uma-ticket"
AccessTokenFormat == "urn:ietf:params:oauth:token-type:jwt"

\* Status codes an authorization server answers with.
Statuses == {200, 201, 299, 300, 403, 500}

\* A response body: a JSON object with the ticket / access_token member ("" when
\* the member is missing), or something that does not decode.
Undecodable == [decodable |-> FALSE, value |-> ""]
Bodies == {[decodable |-> TRUE, value |-> v] : v \in {"", "v1", "v2"}} \cup {Undecodable}

\* The transport failed: DoRequest / PostFormUrlencoded returned an error.
TransportError == [kind |-> "transport error", status |-> 0, body |-> Undecodable]

HTTPReplies(statuses) == [kind : {"response"}, status : statuses, body : Bodies]

\* ensure2XX(resp): nil for a success status
ensure2XX(status) == status >= 200 /\ status < 300

Failed == [val |-> "", err |-> TRUE, returned |-> TRUE]
Returned(v) == [val |-> v, err |-> FALSE, returned |-> TRUE]

\* []permissionRequest{{ResourceID: resourceID, ResourceScopes: scopes}}
PermissionBody(resourceID, scopes) ==
    <<[resource_id |-> resourceID, resource_scopes |-> scopes]>>

\* Variant of TicketReturnValue: the status of the response is not checked.
TicketReturnValueNoStatusCheck(rep) ==
    IF rep.kind # "response" THEN Failed
    ELSE IF ~rep.body.decodable THEN Failed
    ELSE Returned(rep.body.value)

\* RequestPermissionTicket after DoRequest: error, ensure2XX, decodeJSONResponse,
\* return respObj.Ticket, nil
TicketReturnValue(rep) ==
    IF rep.kind # "response" THEN Failed
    ELSE IF ~ensure2XX(rep.status) THEN Failed
    ELSE IF ~rep.body.decodable THEN Failed
    ELSE Returned(rep.body.value)

\* req := jsonRequest(POST, PermissionEndpoint, ...); resp, err := p.DoRequest(req)
TicketSend ==
    /\ op.name = "RequestPermissionTicket"
    /\ op.phase = "called"
    /\ pstate[op.provider] = "Ready"
    /\ wire' = Append(wire, [method |-> "POST", url |-> PermissionEndpoint,
                             auth |-> <<>>,
                             body |-> PermissionBody(op.resourceID, op.scopes)])
    /\ op' = [op EXCEPT !.phase = "sent"]
    /\ UNCHANGED <<reply, result, handlerVars>>

\* the response (or the transport's error) arrives and the operation returns
TicketReturn ==
    /\ op.name = "RequestPermissionTicket"
    /\ op.phase = "sent"
    /\ \E rep \in {TransportError} \cup HTTPReplies(Statuses) :
          /\ reply' = rep
          /\ result' = TicketReturnValue(rep)
    /\ op' = [op EXCEPT !.phase = "returned"]
    /\ UNCHANGED <<wire, handlerVars>>

\* RPTRequest values a caller passes to RequestRPT.
RPTRequests ==
    [Ticket : {"", "tk"}, ClaimToken : {"", "ct"},
     ClaimTokenFormat : {"", AccessTokenFormat}, RPT : {"", "rpt0"},
     Permission : {<<>>, <<"abc#read">>, <<"abc#read", "abc#write">>},
     Audience : {"", "aud"}, ResponseIncludeResourceName : BOOLEAN,
     ResponsePermissionsLimit : {0, 1, 25}, SubmitRequest : BOOLEAN]

\* The form parameter of each RPTRequest field.
ParamName ==
    [Ticket |-> "ticket", ClaimToken |-> "claim_token",
     ClaimTokenFormat |-> "claim_token_format", RPT |-> "rpt",
     Permission |-> "permission", Audience |-> "audience",
     ResponseIncludeResourceName |-> "response_include_resource_name",
     ResponsePermissionsLimit |-> "response_permissions_limit",
     SubmitRequest |-> "submit_request"]

\* strconv.Itoa on the limits used here
Itoa(n) == CASE n = 0 -> "0" [] n = 1 -> "1" [] n = 25 -> "25"

\* The values a field is encoded as: none for a field that was not provided
\* (empty string, empty list, false, 0).
FieldValues(request, f) ==
    CASE f = "Permission" -> request.Permission
      [] f \in {"ResponseIncludeResourceName", "SubmitRequest"} ->
            IF request[f] THEN <<"true">> ELSE <<>>
      [] f = "ResponsePermissionsLimit" ->
            IF request[f] = 0 THEN <<>> ELSE <<Itoa(request[f])>>
      [] OTHER -> IF request[f] = "" THEN <<>> ELSE <<request[f]>>

\* urlencode.ToValues(request): one entry per provided field
ToValues(request) ==
    LET present == {f \in DOMAIN ParamName : FieldValues(request, f) # <<>>}
    IN  [k \in {ParamName[f] : f \in present} |->
            FieldValues(request, CHOOSE f \in present : ParamName[f] = k)]

\* url.Values.Set(key, value)
SetValue(values, key, value) ==
    [k \in DOMAIN values \cup {key} |-> IF k = key THEN <<value>> ELSE values[k]]

\* Variant of RPTForm: the grant type is not set.
RPTFormNoGrantType(request) == ToValues(request)

\* values, err := urlencode.ToValues(request); values.Set("grant_type", ...)
RPTForm(request) == SetValue(ToValues(request), "grant_type", UMATicketGrant)

\* r.Header.Set("Authorization", "Bearer "+accessToken)
Bearer(accessToken) == <<"Bearer ", accessToken>>

\* RequestRPT after PostFormUrlencoded: error, DecodeJSONResponse,
\* return tok.AccessToken, nil
RPTReturnValue(rep) ==
    IF rep.kind # "response" THEN Failed
    ELSE IF ~rep.body.decodable THEN Failed
    ELSE Returned(rep.body.value)

\* resp, err := httputil.PostFormUrlencoded(kc.client, TokenURL, ..., *values)
RPTSend ==
    /\ op.name = "RequestRPT"
    /\ op.phase = "called"
    /\ wire' = Append(wire, [method |-> "POST", url |-> TokenURL,
                             auth |-> Bearer(op.accessToken),
                             body |-> RPTForm(op.request)])
    /\ op' = [op EXCEPT !.phase = "sent"]
    /\ UNCHANGED <<reply, result, handlerVars>>

\* the token endpoint's answer (or the transport's error) arrives and the
\* operation returns
RPTReturn ==
    /\ op.name = "RequestRPT"
    /\ op.phase = "sent"
    /\ \E rep \in {TransportError} \cup HTTPReplies({200}) :
          /\ reply' = rep
          /\ result' = RPTReturnValue(rep)
    /\ op' = [op EXCEPT !.phase = "returned"]
    /\ UNCHANGED <<wire, handlerVars>>

\* The calls a downstream handler can make.
TicketCalls ==
    [name : {"RequestPermissionTicket"}, phase : {"called"}, provider : {1},
     resourceID : IDs \cup {"abc"}, scopes : ScopeLists]
RPTCalls ==
    [name : {"RequestRPT"}, phase : {"called"}, accessToken : {"at1", "at2"},
     request : RPTRequests]

\* Request 1 matched n2 for issA, its provider was discovered, n2 was registered
\* as id2 and the downstream handler is running; it makes one protocol call.
CallInit ==
    /\ crashed = FALSE
    /\ resourceStore = StoredIDs
    /\ providers = [i \in Issuers |-> IF i = "issA" THEN 1 ELSE NoProvider]
    /\ pIssuer = [i \in Insts |-> IF i = 1 THEN "issA" ELSE ""]
    /\ pstate = [i \in Insts |-> IF i = 1 THEN "Ready" ELSE "None"]
    /\ registeredResources =
          [i \in Insts |-> [n \in Names |-> IF i = 1 /\ n = "n2" THEN "id2" ELSE NoEntry]]
    /\ discoverCalls = [i \in Issuers |-> IF i = "issA" THEN 1 ELSE 0]
    /\ regCalls = [i \in Insts |-> [n \in Names |-> IF i = 1 /\ n = "n2" THEN 1 ELSE 0]]
    /\ regReplies =
          [i \in Insts |-> [n \in Names |-> IF i = 1 /\ n = "n2" THEN {"id2"} ELSE {}]]
    /\ pc = [r \in Reqs |-> IF r = 1 THEN "served" ELSE "idle"]
    /\ pinfo = [r \in Reqs |->
                  IF r = 1 THEN [Issuer |-> "issA", Type |-> Keycloak] ELSE NoInfo]
    /\ resource = [r \in Reqs |-> IF r = 1 THEN [Name |-> "n2", ID |-> "id2"] ELSE NoRes]
    /\ p = [r \in Reqs |-> IF r = 1 THEN 1 ELSE NoProvider]
    /\ op \in TicketCalls \cup RPTCalls
    /\ wire = <<>>
    /\ reply = NoReply
    /\ result = NoResult

CallNext == TicketSend \/ TicketReturn \/ RPTSend \/ RPTReturn

\* One protocol operation, from the call to its return.
CallSpec == CallInit /\ [][CallNext]_vars

(***************************************************************************)
(* Properties                                                              *)
(***************************************************************************)

Matched(r) == resource[r] # NoRes

\* RegisterResource returned nil to request r.
RegisterReturnedNil(r) == Matched(r) /\ pc[r] \in {"next", "served"}

\* A RegisterResource call for Name n on instance i returned an error.
RegistrationFailed(i, n) ==
    \E q \in Reqs : pc[q] = "panicked" /\ p[q] = i /\ resource[q].Name = n

\* Provider instances constructed for an issuer.
Constructed(iss) == {i \in Insts : pIssuer[i] = iss}

\* C1: when RegisterResource is called N >= 1 times, one call after the other,
\* for one Name on one Provider and the server answers success, exactly one
\* registration POST is issued and every call ends with resource.ID equal to the
\* ID that POST was answered with.
C1_IdempotentRegistration ==
    \A r \in Reqs :
        (RegisterReturnedNil(r) /\ ~RegistrationFailed(p[r], resource[r].Name)) =>
            /\ regCalls[p[r]][resource[r].Name] = 1
            /\ regReplies[p[r]][resource[r].Name] = {resource[r].ID}

\* Witness of C1: every request registered the same Name on the same Provider,
\* successfully, and one POST was issued for all of them.
C1_Witness ==
    /\ \A r \in Reqs : pc[r] = "served" /\ Matched(r)
    /\ \A r \in Reqs : p[r] = p[1] /\ resource[r].Name = resource[1].Name
    /\ regCalls[p[1]][resource[1].Name] = 1

\* C2: concurrent RegisterResource calls for one not yet registered Name on one
\* Provider issue at most one registration POST (none of them having failed) and
\* all callers end with the same resource.ID.
C2_SerializedRegistration ==
    \A r, q \in Reqs :
        ( /\ RegisterReturnedNil(r) /\ RegisterReturnedNil(q)
          /\ p[r] = p[q] /\ resource[r].Name = resource[q].Name ) =>
            /\ resource[r].ID = resource[q].ID
            /\ ~RegistrationFailed(p[r], resource[r].Name) =>
                   regCalls[p[r]][resource[r].Name] <= 1

\* C3: no issuer is constructed or discovered more than once (no discovery
\* having failed for it), whatever the interleaving of the requests.
C3_DiscoveryOncePerIssuer ==
    \A iss \in Issuers :
        (\A i \in Constructed(iss) : pstate[i] # "Failed") =>
            /\ Cardinality(Constructed(iss)) <= 1
            /\ discoverCalls[iss] <= 1

\* C4: a Provider a request obtained from getProvider, and on which it goes on to
\* RegisterResource, is one whose DiscoverUMA has completed successfully.
C4_OnlyReadyProvidersObserved ==
    \A r \in Reqs : p[r] # NoProvider => pstate[p[r]] = "Ready"

\* C5: a Provider whose discovery failed is not in the provider cache.
C5_FailedProviderNotCached ==
    \A iss \in Issuers : Cached(iss) => pstate[providers[iss]] # "Failed"

\* C6: the downstream handler of a matched request runs only after
\* RegisterResource returned success (the resource carries an ID the server
\* answered a registration of that Name on that Provider with), and a request
\* aborted by a failure never reaches the downstream handler.
C6_FailClosed ==
    /\ [](\A r \in Reqs :
            (Matched(r) /\ pc[r] \in {"next", "served"}) =>
                /\ p[r] # NoProvider
                /\ resource[r].ID \in regReplies[p[r]][resource[r].Name])
    /\ [][\A r \in Reqs : pc[r] = "panicked" => pc'[r] = "panicked"]_vars

\* Witness of C6: one matched request was aborted by a failed registration POST,
\* another matched request reached the downstream handler.
C6_Witness ==
    \E r, q \in Reqs :
        /\ pc[r] = "panicked" /\ p[r] # NoProvider
        /\ regCalls[p[r]][resource[r].Name] > 0
        /\ pc[q] = "served" /\ Matched(q)

\* C7: an operation aborted by a failed protocol call leaves the caches and
\* Resource.ID as they were: the provider cache holds nothing the aborted request
\* put there, and its resource still has the ID the store lookup gave it.
C7_FailureIsolation ==
    \A r \in Reqs :
        pc[r] = "panicked" =>
            /\ \A iss \in Issuers : providers[iss] # r
            /\ resource[r].ID = resourceStore[resource[r].Name]

\* C8: once the idempotency cache of a Provider holds Name -> ID, no step changes
\* that entry.
C8_NameHasOneID ==
    [][\A i \in Insts, n \in Names :
          Registered(i, n) => registeredResources'[i][n] = registeredResources[i][n]]_vars

\* C9: all requests that resolved a provider for one issuer are bound to the same
\* Provider instance.
C9_OneInstancePerIssuer ==
    \A r, q \in Reqs :
        (p[r] # NoProvider /\ p[q] # NoProvider /\ pinfo[r].Issuer = pinfo[q].Issuer) =>
            p[r] = p[q]

\* C10: every step of the handler of a request that matched no resource leaves
\* the provider cache, every provider and every call counter unchanged, binds no
\* Provider to the request, and leads straight to next.ServeHTTP.
C10_NoMatchPassesThrough ==
    [][\A r \in Reqs :
          (resource'[r] = NoRes /\ pc'[r] # pc[r]) =>
              /\ UNCHANGED shared
              /\ p'[r] = NoProvider
              /\ pinfo'[r] = NoInfo
              /\ pc'[r] \in {"next", "served"}]_vars

\* Witness of C10: an unmatched request was served while a provider is cached.
C10_Witness ==
    \E r \in Reqs :
        /\ pc[r] = "served" /\ ~Matched(r) /\ p[r] = NoProvider
        /\ \E iss \in Issuers : Cached(iss)

\* C11: no registration POST is issued for a Name the Resource Store holds a
\* non-empty ID for (the matcher pre-filled resource.ID with it).
C11_StoredResourceNotRegistered ==
    \A i \in Insts, n \in Names : resourceStore[n] # NoID => regCalls[i][n] = 0

\* C12: a step of a request for issuer A changes neither the cache entry nor the
\* discovery state, idempotency cache or registration calls of a Provider of
\* another issuer; every Provider serves the issuer it was constructed for, and
\* the registration POSTs of a Provider are at most the requests of its issuer
\* for that Name (one request per issuer: one POST per issuer).
C12_IndependentProviders ==
    /\ [](/\ \A r \in Reqs : p[r] # NoProvider => pIssuer[p[r]] = pinfo[r].Issuer
          /\ \A iss \in Issuers : Cached(iss) => pIssuer[providers[iss]] = iss
          /\ \A i \in Insts, n \in Names :
                regCalls[i][n] <= Cardinality({r \in Reqs :
                    pinfo[r].Issuer = pIssuer[i] /\ resource[r].Name = n}))
    /\ [][\A r \in Reqs :
            pc'[r] # pc[r] =>
                \A iss \in Issuers \ {pinfo'[r].Issuer} :
                    /\ providers'[iss] = providers[iss]
                    /\ \A i \in Constructed(iss) :
                          /\ pstate'[i] = pstate[i]
                          /\ registeredResources'[i] = registeredResources[i]
                          /\ regCalls'[i] = regCalls[i]]_vars

\* Witness of C12: two requests registered the same Name under different
\* issuers; each Provider got one POST and keeps its own ID.
C12_Witness ==
    \E r, q \in Reqs :
        /\ pc[r] = "served" /\ pc[q] = "served" /\ Matched(r)
        /\ pinfo[r].Issuer # pinfo[q].Issuer
        /\ resource[r].Name = resource[q].Name
        /\ regCalls[p[r]][resource[r].Name] = 1
        /\ regCalls[p[q]][resource[q].Name] = 1
        /\ registeredResources[p[r]][resource[r].Name] = resource[r].ID
        /\ registeredResources[p[q]][resource[q].Name] = resource[q].ID
        /\ resource[r].ID # resource[q].ID

\* The form carries key with exactly these values; with none, key is absent.
Carries(form, key, values) ==
    IF values = <<>> THEN key \notin DOMAIN form
    ELSE key \in DOMAIN form /\ form[key] = values

\* The reply is a decodable response with a success status.
SuccessReply == reply.kind = "response" /\ reply.status \in 200..299 /\ reply.body.decodable

C15_ReadyProviderReused ==
    [][\A iss \in Issuers :
          (Cached(iss) /\ pstate[providers[iss]] = "Ready") =>
              /\ providers'[iss] = providers[iss]
              /\ pstate'[providers[iss]] = "Ready"
              /\ discoverCalls'[iss] = discoverCalls[iss]]_vars

\* The ProviderInfo of request r names a type that is not a known kind.
UnsupportedType(r) == pinfo[r].Type \notin {Keycloak, ""}

\* C16 as stated: a request whose ProviderInfo names an unsupported type is
\* aborted in getProvider, it never registers and never reaches the downstream
\* handler.
C16_UnsupportedTypeAborts ==
    \A r \in Reqs : UnsupportedType(r) => pc[r] = "panicked"

\* C16 amended: when the issuer is not in the provider cache at the lookup, a
\* request whose ProviderInfo names an unsupported type is aborted at once: the
\* step changes no shared state (nothing inserted, no discovery, no
\* registration), binds no provider, and the request never moves again.
C16_UnsupportedTypeAbortsOnMiss ==
    /\ [][\A r \in Reqs :
            ( /\ pc[r] = "getProvider" /\ pc'[r] # pc[r]
              /\ pinfo'[r].Type # Keycloak /\ ~Cached(pinfo'[r].Issuer) ) =>
                (pc'[r] = "panicked" /\ p'[r] = NoProvider /\ UNCHANGED shared)]_vars
    /\ [][\A r \in Reqs :
            (UnsupportedType(r) /\ pc[r] = "panicked" /\ p[r] = NoProvider) =>
                (pc'[r] = "panicked" /\ p'[r] = NoProvider)]_vars
    /\ [](\A r \in Reqs :
            (UnsupportedType(r) /\ pc[r] = "panicked" /\ p[r] = NoProvider) =>
                (pstate[r] = "None" /\ \A iss \in Issuers : providers[iss] # r))

\* Witness of C16: a request with an unsupported type was aborted on a cache
\* miss, and a later request for the same issuer with the supported type
\* constructed the provider, registered and was served.
C16_Witness ==
    \E r, q \in Reqs :
        /\ r < q
        /\ UnsupportedType(r) /\ pc[r] = "panicked"
        /\ pinfo[q] = [Issuer |-> pinfo[r].Issuer, Type |-> Keycloak]
        /\ pc[q] = "served" /\ p[q] = q /\ providers[pinfo[q].Issuer] = q

\* C17: when next.ServeHTTP is invoked for a matched request, the request
\* carries the Provider cached for its issuer, and the resource's ID is non-empty
\* and is the ID that Provider's idempotency cache holds for the resource's Name.
C17_ServedWithCachedProviderAndID ==
    \A r \in Reqs :
        (pc[r] = "next" /\ Matched(r)) =>
            /\ p[r] = providers[pinfo[r].Issuer]
            /\ resource[r].ID # NoID
            /\ resource[r].ID = registeredResources[p[r]][resource[r].Name]

\* RegisterResource calls for Name n on instance i that are at, or ended in,
\* the given position.
CallsAt(i, n, where) ==
    Cardinality({r \in Reqs : pc[r] = where /\ p[r] = i /\ resource[r].Name = n})

====
